---- MODULE Spec2Model ----
(***************************************************************************)
(* AsciiFont (ascii font engine): the loader parseFontFile and the glyph   *)
(* compositor render, as a state machine; and the Router of the terminal   *)
(* pages with its Terminal, as a second state machine on its own           *)
(* variables.                                                              *)
(*                                                                         *)
(* Strings are sequences of one-character strings, so that split, slice,   *)
(* startsWith, parseInt and join are computed and not assumed.  A          *)
(* JavaScript number is a record: Num(n) for the integer n, NaN for        *)
(* not-a-number.  Row and column numbers are the code's (0-based); a glyph *)
(* row r of the code is element r + 1 of the sequence that models it.      *)
(***************************************************************************)
EXTENDS Integers, Sequences, FiniteSets, TLC

VARIABLES
  fontData,       \* the definition text handed to the constructor
  pc,             \* "new", "idle", "loop", "returned", "threw"
  fontMap,        \* #fontMap: key -> glyph (sequence of rows of cells)
  height,         \* #height
  spaces,         \* #spaces
  text,           \* render's argument
  i,              \* render's loop index
  result,         \* render's canvas: NoCanvas, or [rows |-> sequence of rows]
  currentColumn,  \* render's cursor
  output,         \* the string render returned
  placedAt,       \* history: the cursor at which the last glyph was composed
  arg,            \* renderText's argument, when the call came through it
  earlier,        \* history: an earlier call on this font and what it returned
  stdinIsTerminal,   \* Deno.stdin.isTerminal()
  stdinRaw,          \* the raw mode of stdin
  rawBefore,         \* history: the raw mode of stdin before new Terminal()
  previousRawMode,   \* Terminal.previousRawMode
  pagesLength,       \* Router.pages.length
  currentPageIndex,  \* Router.currentPageIndex
  running,           \* Router.running
  isOnSplashScreen,  \* Router.isOnSplashScreen
  rpc,               \* where the program is: "off", "boot", "noTerminal",
                     \* "terminal", "constructed", "reading", "finally",
                     \* "finished", "failed"
  thrown,            \* an error is on its way out of start
  written,           \* what was written to the terminal, in order
  reads,             \* the number of term.read() calls so far
  lastInput,         \* history: what the last read returned
  writtenAtRead,     \* history: the length of written when the last read returned
  leftBy             \* history: how handleInput's loop was left

fontVars == <<fontData, pc, fontMap, height, spaces, text, i, result,
              currentColumn, output, placedAt, arg, earlier>>

routerVars == <<stdinIsTerminal, stdinRaw, rawBefore, previousRawMode,
                pagesLength, currentPageIndex, running, isOnSplashScreen, rpc,
                thrown, written, reads, lastInput, writtenAtRead, leftBy>>

vars == <<fontVars, routerVars>>

----------------------------------------------------------------------------
(* Bounds of the model *)

MaxTextLen == 3

\* the longest text of a call that is kept as the earlier call
MaxKeptLen == 2

\* the longest definition text of the loader's specification, in lines
MaxLines == 4

\* the most pages a router is given, and the most reads of one run
MaxPages == 4
MaxReads == 6

----------------------------------------------------------------------------
(* JavaScript numbers *)

NaN == [nan |-> TRUE]
Num(n) == [nan |-> FALSE, v |-> n]
IsNum(x) == ~x.nan

\* a + b of JavaScript numbers: NaN is absorbing
Add(a, b) == IF a.nan \/ b.nan THEN NaN ELSE Num(a.v + b.v)

SetMax(S) == CHOOSE m \in S : \A x \in S : x <= m

----------------------------------------------------------------------------
(* Strings *)

Digits == <<"0", "1", "2", "3", "4", "5", "6", "7", "8", "9">>
IsDigit(c) == \E d \in 1..10 : Digits[d] = c
DigitVal(c) == (CHOOSE d \in 1..10 : Digits[d] = c) - 1

WhiteSpace == {" ", "\t", "\r"}

StartsWith(s, p) == Len(s) >= Len(p) /\ SubSeq(s, 1, Len(p)) = p
EndsWith(s, p) == Len(s) >= Len(p) /\ SubSeq(s, Len(s) - Len(p) + 1, Len(s)) = p

\* s.split(sep) for a one-character separator
RECURSIVE Split(_, _)
Split(s, sep) ==
  IF \A k \in 1..Len(s) : s[k] # sep
  THEN <<s>>
  ELSE LET p == CHOOSE k \in 1..Len(s) :
                  s[k] = sep /\ \A j \in 1..(k - 1) : s[j] # sep
       IN <<SubSeq(s, 1, p - 1)>> \o Split(SubSeq(s, p + 1, Len(s)), sep)

\* parts.join(sep)
RECURSIVE Join(_, _)
Join(parts, sep) ==
  IF Len(parts) = 0 THEN <<>>
  ELSE IF Len(parts) = 1 THEN parts[1]
  ELSE parts[1] \o <<sep>> \o Join(Tail(parts), sep)

\* mutant: the test without trim
NotEmptyUntrimmed(line) == line # <<>>

\* line.trim() !== ""
TrimNotEmpty(line) == \E k \in 1..Len(line) : line[k] \notin WhiteSpace

\* the value of a sequence of decimal digits
RECURSIVE DigitsValue(_)
DigitsValue(ds) ==
  IF ds = <<>> THEN 0
  ELSE 10 * DigitsValue(SubSeq(ds, 1, Len(ds) - 1)) + DigitVal(ds[Len(ds)])

\* the longest prefix of s made of decimal digits
RECURSIVE DigitsPrefix(_)
DigitsPrefix(s) ==
  IF s = <<>> \/ ~IsDigit(Head(s)) THEN <<>>
  ELSE <<Head(s)>> \o DigitsPrefix(Tail(s))

\* leading white space is skipped by parseInt
RECURSIVE TrimStart(_)
TrimStart(s) ==
  IF s # <<>> /\ Head(s) \in WhiteSpace THEN TrimStart(Tail(s)) ELSE s

\* parseInt(s), radix 10: optional sign, then the longest run of digits;
\* NaN when there is no digit.  (No value of the model starts with 0x.)
ParseInt(s) ==
  LET t == TrimStart(s)
      signed == t # <<>> /\ Head(t) \in {"-", "+"}
      negative == t # <<>> /\ Head(t) = "-"
      ds == DigitsPrefix(IF signed THEN Tail(t) ELSE t)
  IN IF ds = <<>> THEN NaN
     ELSE Num(IF negative THEN 0 - DigitsValue(ds) ELSE DigitsValue(ds))

----------------------------------------------------------------------------
(* The loader: parseFontFile *)

DefaultHeight == 5
DefaultSpaces == 4

DefineMarker == <<"#", "d", "e", "f", "i", "n", "e">>
HeightPrefix == <<"h", "e", "i", "g", "h", "t", "=">>
SpacesPrefix == <<"s", "p", "a", "c", "e", "s", "=">>
GlyphOpen == <<"@", "\"">>
GlyphClose == <<"\"">>

EmptyMap == [k \in {} |-> <<>>]
\* mutant: a map that keeps the first value set for a key
MapSetFirstWins(m, key, val) ==
  [k \in (DOMAIN m) \cup {key} |-> IF k \in DOMAIN m THEN m[k] ELSE val]

\* Map.set
MapSet(m, key, val) ==
  [k \in (DOMAIN m) \cup {key} |-> IF k = key THEN val ELSE m[k]]

\* mutant: the loop ends at the first token it recognises
RECURSIVE ParseDefinitionsFirstOnly(_, _, _)
ParseDefinitionsFirstOnly(defs, n, params) ==
  IF n > Len(defs) THEN params
  ELSE LET def == defs[n]
       IN IF StartsWith(def, HeightPrefix)
          THEN [params EXCEPT !.height = ParseInt(Split(def, "=")[2])]
          ELSE IF StartsWith(def, SpacesPrefix)
          THEN [params EXCEPT !.spaces = ParseInt(Split(def, "=")[2])]
          ELSE ParseDefinitionsFirstOnly(defs, n + 1, params)

\* the for loop over the directive's tokens, from token n on
RECURSIVE ParseDefinitions(_, _, _)
ParseDefinitions(defs, n, params) ==
  IF n > Len(defs) THEN params
  ELSE LET def == defs[n]
           next ==
             IF StartsWith(def, HeightPrefix)
             THEN [params EXCEPT !.height = ParseInt(Split(def, "=")[2])]
             ELSE IF StartsWith(def, SpacesPrefix)
             THEN [params EXCEPT !.spaces = ParseInt(Split(def, "=")[2])]
             ELSE params
       IN ParseDefinitions(defs, n + 1, next)

IsDirective(lines) == StartsWith(lines[1], DefineMarker)

\* #height and #spaces after the directive block
ParseParams(lines) ==
  LET defaults == [height |-> Num(DefaultHeight), spaces |-> Num(DefaultSpaces)]
  IN IF IsDirective(lines)
     THEN ParseDefinitions(Split(lines[1], " "), 1, defaults)
     ELSE defaults

\* the lines left after the two lines.shift() calls
BodyLines(lines) ==
  IF IsDirective(lines) THEN SubSeq(lines, 3, Len(lines)) ELSE lines

IsGlyphStart(line) == StartsWith(line, GlyphOpen) /\ EndsWith(line, GlyphClose)

\* line.slice(2, -1)
GlyphKey(line) == SubSeq(line, 3, Len(line) - 1)

\* line.split("") : the cells of a row
Cells(line) == [c \in 1..Len(line) |-> line[c]]

\* mutant: the flush without its check that the glyph has rows
ShouldStoreAnyRows(currentChar, currentGlyph) == currentChar # <<>>

\* if (currentChar && currentGlyph.length > 0) this.#fontMap.set(...)
ShouldStore(currentChar, currentGlyph) ==
  currentChar # <<>> /\ Len(currentGlyph) > 0

Flush(map, currentChar, currentGlyph) ==
  IF ShouldStore(currentChar, currentGlyph)
  THEN MapSet(map, currentChar, [r \in 1..Len(currentGlyph) |-> Cells(currentGlyph[r])])
  ELSE map

\* the for loop over the lines, from line n on, and the final flush
RECURSIVE ScanLines(_, _, _, _, _)
ScanLines(lines, n, map, currentChar, currentGlyph) ==
  IF n > Len(lines) THEN Flush(map, currentChar, currentGlyph)
  ELSE LET line == lines[n]
       IN IF IsGlyphStart(line)
          THEN ScanLines(lines, n + 1, Flush(map, currentChar, currentGlyph),
                         GlyphKey(line), <<>>)
          ELSE IF TrimNotEmpty(line)
          THEN ScanLines(lines, n + 1, map, currentChar, Append(currentGlyph, line))
          ELSE ScanLines(lines, n + 1, map, currentChar, currentGlyph)

ParseFontFile(data) ==
  LET lines == Split(data, "\n")
      params == ParseParams(lines)
  IN [height |-> params.height,
      spaces |-> params.spaces,
      fontMap |-> ScanLines(BodyLines(lines), 1, EmptyMap, <<>>, <<>>)]

----------------------------------------------------------------------------
(* The compositor: render *)

Blank == " "

\* this.#fontMap.get(key): <<>> for undefined, <<glyph>> otherwise
MapGet(map, key) == IF key \in DOMAIN map THEN <<map[key]>> ELSE <<>>

\* char2D[row] || []
GlyphRow(char2D, row) ==
  IF row + 1 \in DOMAIN char2D THEN char2D[row + 1] ELSE <<>>

\* the inner for loop of getBottomRightPosition, from column col down to 0:
\* col + 1 of the rightmost matching column, or 0 when the loop ends unmatched
RECURSIVE MatchColumn(_, _, _)
MatchColumn(currentRow, nextRow, col) ==
  IF col < 0 THEN 0
  ELSE IF /\ nextRow # <<>>
          /\ currentRow[col + 1] = nextRow[1]
          /\ currentRow[col + 1] # Blank
          /\ nextRow[1] # Blank
       THEN col + 1
       ELSE MatchColumn(currentRow, nextRow, col - 1)

\* mutant: every row is compared with the top row of the next glyph
RECURSIVE KernRowsAgainstTopRow(_, _, _, _, _)
KernRowsAgainstTopRow(currentChar2D, nextChar2D, h, row, maxRight) ==
  IF ~(row < h) THEN maxRight
  ELSE LET currentRow == GlyphRow(currentChar2D, row)
           nextRow == GlyphRow(nextChar2D, 0)
           cand == MatchColumn(currentRow, nextRow, Len(currentRow) - 1)
       IN KernRowsAgainstTopRow(currentChar2D, nextChar2D, h, row + 1,
                                IF cand > maxRight THEN cand ELSE maxRight)

\* the outer for loop of getBottomRightPosition, from row `row` on
RECURSIVE KernRows(_, _, _, _, _)
KernRows(currentChar2D, nextChar2D, h, row, maxRight) ==
  IF ~(row < h) THEN maxRight
  ELSE LET currentRow == GlyphRow(currentChar2D, row)
           nextRow == GlyphRow(nextChar2D, row)
           cand == MatchColumn(currentRow, nextRow, Len(currentRow) - 1)
       IN KernRows(currentChar2D, nextChar2D, h, row + 1,
                   IF cand > maxRight THEN cand ELSE maxRight)

\* getBottomRightPosition(currentChar2D, nextChar2D) with #height = h (a
\* number, never NaN: render has allocated its canvas); next is <<>> for
\* undefined and <<glyph>> otherwise
GetBottomRightPosition(currentChar2D, next, h) ==
  IF Len(currentChar2D) = 0 THEN 0
  ELSE LET bottomRow == GlyphRow(currentChar2D, h - 1)
       IN IF next = <<>> THEN Len(bottomRow)
          ELSE KernRows(currentChar2D, next[1], h, 0, Len(bottomRow))

\* a canvas row is a JavaScript array: a function from the property keys
\* that were assigned (numbers, NaN included) to characters
EmptyRow == [k \in {} |-> Blank]

\* arr.length: one more than the greatest array index assigned
RowLength(row) ==
  LET idx == {k.v : k \in {k \in DOMAIN row : IsNum(k) /\ k.v >= 0}}
  IN IF idx = {} THEN 0 ELSE SetMax(idx) + 1

\* mutant: the composition writes every cell, last write wins
CanWriteAlways(row, targetCol) == TRUE

\* result[row][targetCol] === undefined || result[row][targetCol] === " "
CanWrite(row, targetCol) ==
  targetCol \notin DOMAIN row \/ row[targetCol] = Blank

RowSet(row, key, c) ==
  [k \in (DOMAIN row) \cup {key} |-> IF k = key THEN c ELSE row[k]]

\* the inner for loop of the composition, from column col on
RECURSIVE ComposeRow(_, _, _, _)
ComposeRow(row, charRow, col, column) ==
  IF ~(col < Len(charRow)) THEN row
  ELSE LET targetCol == Add(column, Num(col))
       IN ComposeRow(IF CanWrite(row, targetCol)
                     THEN RowSet(row, targetCol, charRow[col + 1])
                     ELSE row,
                     charRow, col + 1, column)

\* mutant: the glyph's rows are read one row off
ComposeOneRowDown(rows, char2D, column) ==
  [r \in DOMAIN rows |-> ComposeRow(rows[r], GlyphRow(char2D, r), 0, column)]

\* the composition loop over the rows 0..#height-1
Compose(rows, char2D, column) ==
  [r \in DOMAIN rows |-> ComposeRow(rows[r], GlyphRow(char2D, r - 1), 0, column)]

\* Array(h) throws RangeError when h is NaN or negative (and above 2^32-1,
\* a height no value of the model reaches)
ArrayThrows(h) == h.nan \/ h.v < 0

\* mutant: a canvas one row short
NewCanvasOneShort(h) == [r \in 1..(h - 1) |-> EmptyRow]

\* Array(this.#height).fill("").map(() => [])
NewCanvas(h) == [r \in 1..h |-> EmptyRow]

\* Math.max(...result.map((arr) => arr.length)), for at least one row
MaxRowLength(rows) == SetMax({RowLength(rows[r]) : r \in DOMAIN rows})

\* mutant: each row is filled to its own length, not to the longest
FixedRowOwnLength(subArray, length) ==
  [c \in 1..RowLength(subArray) |->
     IF Num(c - 1) \in DOMAIN subArray THEN subArray[Num(c - 1)] ELSE Blank]

\* one row of fixedArray, then row.map((char) => char || " ")
FixedRow(subArray, length) ==
  [c \in 1..length |->
     LET item == IF Num(c - 1) \in DOMAIN subArray
                 THEN subArray[Num(c - 1)] ELSE Blank
     IN IF item = "" THEN Blank ELSE item]

\* the lines of the result: fixedArray mapped to strings
FixedLines(rows) ==
  [r \in DOMAIN rows |-> FixedRow(rows[r], MaxRowLength(rows))]

\* mutant: render without its early return
NeverEmptyText(t) == FALSE

\* if (!text) return ""
IsEmptyText(t) == Len(t) = 0

\* nextChar !== " " ? this.#fontMap.get(nextChar) : undefined
NextChar2D(map, t, idx) ==
  LET nextChar == IF idx < Len(t) - 1 THEN <<t[idx + 2]>> ELSE <<>>
  IN IF nextChar # <<Blank>> THEN MapGet(map, nextChar) ELSE <<>>

\* mutant: no trailing gap after the last glyph of a run
AdvanceNoGap(column, t, idx, bottomRightPos) ==
  IF idx < Len(t) - 1 /\ t[idx + 2] # Blank
  THEN Add(column, Num(bottomRightPos - 1))
  ELSE Add(column, Num(bottomRightPos))

\* mutant: no kerning overlap, the gap follows every glyph
AdvanceNoKerning(column, t, idx, bottomRightPos) ==
  Add(column, Num(bottomRightPos + 1))

\* the cursor after a glyph was composed at index idx
Advance(column, t, idx, bottomRightPos) ==
  IF idx < Len(t) - 1 /\ t[idx + 2] # Blank
  THEN Add(column, Num(bottomRightPos - 1))
  ELSE Add(column, Num(bottomRightPos + 1))

\* mutant: a character without glyph moves the cursor one column
RenderStepAdvancingUnknown(map, h, sp, t, idx, st) ==
  LET char == t[idx + 1]
      char2D == MapGet(map, <<char>>)
  IN IF char = Blank
     THEN [st EXCEPT !.column = Add(st.column, sp)]
     ELSE IF char2D = <<>>
     THEN [st EXCEPT !.column = Add(st.column, Num(1))]
     ELSE [rows |-> Compose(st.rows, char2D[1], st.column),
           column |-> Advance(st.column, t, idx,
                        GetBottomRightPosition(char2D[1], NextChar2D(map, t, idx), h))]

\* one iteration of render's for loop on the locals st = [rows, column]
RenderStep(map, h, sp, t, idx, st) ==
  LET char == t[idx + 1]
      char2D == MapGet(map, <<char>>)
  IN IF char = Blank
     THEN [st EXCEPT !.column = Add(st.column, sp)]
     ELSE IF char2D = <<>>
     THEN st
     ELSE [rows |-> Compose(st.rows, char2D[1], st.column),
           column |-> Advance(st.column, t, idx,
                        GetBottomRightPosition(char2D[1], NextChar2D(map, t, idx), h))]

\* the for loop of render from index idx on
RECURSIVE RenderLoop(_, _, _, _, _, _)
RenderLoop(map, h, sp, t, idx, st) ==
  IF idx < Len(t)
  THEN RenderLoop(map, h, sp, t, idx + 1, RenderStep(map, h, sp, t, idx, st))
  ELSE st

\* render(t) as a whole: what it returns, or that it throws
Render(map, h, sp, t) ==
  IF IsEmptyText(t) THEN [threw |-> FALSE, value |-> <<>>]
  ELSE IF ArrayThrows(h) THEN [threw |-> TRUE, value |-> <<>>]
  ELSE LET st == RenderLoop(map, h.v, sp, t, 0,
                            [rows |-> NewCanvas(h.v), column |-> Num(0)])
       IN [threw |-> FALSE, value |-> Join(FixedLines(st.rows), "\n")]

\* String.prototype.toUpperCase on the letters of the model
LowerCase == <<"a", "b">>
UpperCase == <<"A", "B">>
UpperChar(c) ==
  IF \E n \in 1..Len(LowerCase) : LowerCase[n] = c
  THEN UpperCase[CHOOSE n \in 1..Len(LowerCase) : LowerCase[n] = c]
  ELSE c

\* mutant: the text passed on as given
ToUpperCaseIdentity(t) == t

ToUpperCase(t) == [k \in 1..Len(t) |-> UpperChar(t[k])]

\* renderText(t): SlantFont.render(text.toUpperCase())
RenderText(map, h, sp, t) == Render(map, h, sp, ToUpperCase(t))

----------------------------------------------------------------------------
(* The inputs: definition texts and render texts *)

HeightToken(v) == HeightPrefix \o v
SpacesToken(v) == SpacesPrefix \o v
DirectiveLine(tokens) == Join(<<DefineMarker>> \o tokens, " ")

\* a header is the directive line and the blank line after it, or nothing
Header(tokens) == <<DirectiveLine(tokens), <<>>>>

Headers ==
  { <<>>,
    Header(<<HeightToken(<<"2">>), SpacesToken(<<"1">>)>>),
    Header(<<HeightToken(<<"1">>), SpacesToken(<<"2">>)>>),
    Header(<<HeightToken(<<"3">>)>>),
    Header(<<HeightToken(<<"0">>)>>),
    Header(<<HeightToken(<<"-", "1">>)>>),
    Header(<<HeightToken(<<"a">>), SpacesToken(<<"1">>)>>),
    Header(<<HeightToken(<<"2">>), SpacesToken(<<"a">>)>>),
    Header(<<HeightToken(<<"2">>), SpacesToken(<<"-", "2">>)>>) }

\* the glyph block of a key: its start line and its rows
Block(key, rows) == <<GlyphOpen \o key \o GlyphClose>> \o rows

RowsOfA ==
  { << <<"/", "_">>, <<"_", "/">> >>,
    << <<"/">> >>,
    << <<"_", "/", "/">>, <<"/">> >>,
    << <<" ", "/">>, <<"/", " ">>, <<"_", "_">> >> }

RowsOfB ==
  { << <<"/", "_">>, <<"_", "_">> >>,
    << >>,
    << <<"/">>, <<" ", "_", "/">> >> }

\* the definition text: header, block of A, a blank line, block of B
Source(header, rowsA, rowsB) ==
  Join(header \o Block(<<"A">>, rowsA) \o << <<>> >> \o Block(<<"B">>, rowsB), "\n")

\* a font of height 3 whose middle rows reach further right than the bottom
\* rows, and whose glyphs begin with different cells from row to row
TallSource ==
  Source(Header(<<HeightToken(<<"3">>)>>),
         << <<"/">>, <<"_", "/", "/">>, <<"_">> >>,
         << <<"_">>, <<"/">>, <<"_">> >>)

FontSources ==
  {Source(h, a, b) : h \in Headers, a \in RowsOfA, b \in RowsOfB}
    \cup {TallSource}

\* the fonts of the specifications that follow several calls
PlainHeader == Header(<<HeightToken(<<"2">>), SpacesToken(<<"1">>)>>)
PlainSources == {Source(PlainHeader, a, b) : a \in RowsOfA, b \in RowsOfB}
RepeatSources ==
  {Source(PlainHeader, a, << <<"/", "_">>, <<"_", "_">> >>) : a \in RowsOfA}

\* the definition texts of the loader's specification: every sequence of up
\* to MaxLines lines drawn from a directive, a blank line, glyph-start lines
\* (two keys and the empty key) and two rows
SourceLineKinds ==
  { DirectiveLine(<<HeightToken(<<"2">>), SpacesToken(<<"1">>)>>),
    <<" ">>,
    GlyphOpen \o <<"A">> \o GlyphClose,
    GlyphOpen \o <<"B">> \o GlyphClose,
    GlyphOpen \o GlyphClose,
    <<"/", "_">>,
    <<"_">> }

LineSources ==
  {Join(ls, "\n") : ls \in UNION {[1..n -> SourceLineKinds] : n \in 1..MaxLines}}

\* first lines with each parameter present, absent, alone, in either order
DirectiveLines ==
  { DirectiveLine(<<>>),
    DirectiveLine(<<HeightToken(<<"3">>)>>),
    DirectiveLine(<<SpacesToken(<<"3">>)>>),
    DirectiveLine(<<SpacesToken(<<"2">>), HeightToken(<<"1">>)>>),
    DirectiveLine(<<HeightToken(<<"1">>), <<"w", "=", "9">>, SpacesToken(<<"7">>)>>),
    DirectiveLine(<<<<>>, SpacesToken(<<"1", "2">>), HeightToken(<<"2">>)>>) }

DirectiveSources ==
  {Join(<<d, <<>>>> \o Block(<<"A">>, << <<"/", "_">>, <<"_", "/">> >>), "\n")
     : d \in DirectiveLines}

\* definition texts with lines that open a glyph key and do not close it:
\* the marker alone, and the marker with a key and no closing quote
UnclosedLineKinds ==
  { GlyphOpen \o <<"A">> \o GlyphClose,
    GlyphOpen \o <<"B">> \o GlyphClose,
    <<"/", "_">>,
    GlyphOpen,
    GlyphOpen \o <<"A">> }

UnclosedSources ==
  {Join(ls, "\n") : ls \in UNION {[1..n -> UnclosedLineKinds] : n \in 1..MaxLines}}

LoaderSources == LineSources \cup DirectiveSources \cup UnclosedSources
LoaderTexts == {<<"A">>, <<"A", "B">>}

TextChars == {"A", "B", " ", "?"}
Texts == UNION {[1..n -> TextChars] : n \in 0..MaxTextLen}

\* the arguments of renderText: upper and lower case
MixedChars == {"A", "a", "B", "b", " ", "?"}
MixedTexts == UNION {[1..n -> MixedChars] : n \in 0..MaxTextLen}

----------------------------------------------------------------------------
(* The state machine *)

NoCanvas == [none |-> TRUE]
Canvas(rows) == [none |-> FALSE, rows |-> rows]

NoArg == [given |-> FALSE]
Given(t) == [given |-> TRUE, text |-> t]

NoCall == [kept |-> FALSE]
Kept(t, value) == [kept |-> TRUE, text |-> t, value |-> value]

\* no router in the program
RouterOff ==
  /\ stdinIsTerminal = FALSE
  /\ stdinRaw = FALSE
  /\ rawBefore = FALSE
  /\ previousRawMode = FALSE
  /\ pagesLength = 0
  /\ currentPageIndex = 0
  /\ running = TRUE
  /\ isOnSplashScreen = TRUE
  /\ rpc = "off"
  /\ thrown = FALSE
  /\ written = <<>>
  /\ reads = 0
  /\ lastInput = <<>>
  /\ writtenAtRead = 0
  /\ leftBy = "notEntered"

InitFrom(sources) ==
  /\ fontData \in sources
  /\ pc = "new"
  /\ fontMap = EmptyMap
  /\ height = Num(DefaultHeight)
  /\ spaces = Num(DefaultSpaces)
  /\ text = <<>>
  /\ i = 0
  /\ result = NoCanvas
  /\ currentColumn = Num(0)
  /\ output = <<>>
  /\ placedAt = NaN
  /\ arg = NoArg
  /\ earlier = NoCall
  /\ RouterOff

Init == InitFrom(FontSources)

\* new AsciiFont(fontData)
Construct ==
  /\ pc = "new"
  /\ LET font == ParseFontFile(fontData)
     IN /\ fontMap' = font.fontMap
        /\ height' = font.height
        /\ spaces' = font.spaces
  /\ pc' = "idle"
  /\ UNCHANGED <<fontData, text, i, result, currentColumn, output, placedAt,
                 arg, earlier>>
  /\ UNCHANGED routerVars

\* render(t), up to the for loop
RenderEnter(t) ==
  /\ pc = "idle"
  /\ text' = t
  /\ IF IsEmptyText(t)
     THEN /\ pc' = "returned"
          /\ output' = <<>>
          /\ UNCHANGED <<result, currentColumn, i>>
     ELSE IF ArrayThrows(height)
     THEN /\ pc' = "threw"
          /\ UNCHANGED <<result, currentColumn, i, output>>
     ELSE /\ pc' = "loop"
          /\ result' = Canvas(NewCanvas(height.v))
          /\ currentColumn' = Num(0)
          /\ i' = 0
          /\ UNCHANGED output
  /\ UNCHANGED <<fontData, fontMap, height, spaces, placedAt, earlier>>
  /\ UNCHANGED routerVars

\* a direct call of render
RenderBegin(t) ==
  /\ RenderEnter(t)
  /\ arg' = NoArg

\* renderText(t)
RenderTextBegin(t) ==
  /\ RenderEnter(ToUpperCase(t))
  /\ arg' = Given(t)

\* mutant: a space widens the font's space width, not only the cursor
RenderCharWidening ==
  /\ pc = "loop"
  /\ i < Len(text)
  /\ LET st == RenderStep(fontMap, height.v, spaces, text, i,
                          [rows |-> result.rows, column |-> currentColumn])
     IN /\ result' = Canvas(st.rows)
        /\ currentColumn' = st.column
  /\ spaces' = IF text[i + 1] = Blank THEN Add(spaces, Num(1)) ELSE spaces
  /\ placedAt' = IF text[i + 1] # Blank /\ MapGet(fontMap, <<text[i + 1]>>) # <<>>
                 THEN currentColumn ELSE placedAt
  /\ i' = i + 1
  /\ UNCHANGED <<fontData, pc, fontMap, height, text, output, arg, earlier>>
  /\ UNCHANGED routerVars

\* one iteration of the for loop
RenderChar ==
  /\ pc = "loop"
  /\ i < Len(text)
  /\ LET st == RenderStep(fontMap, height.v, spaces, text, i,
                          [rows |-> result.rows, column |-> currentColumn])
     IN /\ result' = Canvas(st.rows)
        /\ currentColumn' = st.column
  /\ placedAt' = IF text[i + 1] # Blank /\ MapGet(fontMap, <<text[i + 1]>>) # <<>>
                 THEN currentColumn ELSE placedAt
  /\ i' = i + 1
  /\ UNCHANGED <<fontData, pc, fontMap, height, spaces, text, output,
                 arg, earlier>>
  /\ UNCHANGED routerVars

\* the normalisation after the loop, and the return
RenderFinish ==
  /\ pc = "loop"
  /\ ~(i < Len(text))
  /\ output' = Join(FixedLines(result.rows), "\n")
  /\ pc' = "returned"
  /\ UNCHANGED <<fontData, fontMap, height, spaces, text, i, result,
                 currentColumn, placedAt, arg, earlier>>
  /\ UNCHANGED routerVars

\* the call is over: its locals are gone, the font stays
Discard ==
  /\ pc' = "idle"
  /\ text' = <<>>
  /\ i' = 0
  /\ result' = NoCanvas
  /\ currentColumn' = Num(0)
  /\ output' = <<>>
  /\ placedAt' = NaN
  /\ arg' = NoArg
  /\ UNCHANGED <<fontData, fontMap, height, spaces>>
  /\ UNCHANGED routerVars

\* the caller drops what the call returned or threw
Release ==
  /\ pc \in {"returned", "threw"}
  /\ Discard
  /\ UNCHANGED earlier

\* the caller keeps the text and the string the call returned
ReleaseKeeping ==
  /\ pc = "returned"
  /\ earlier = NoCall
  /\ Len(text) <= MaxKeptLen
  /\ Discard
  /\ earlier' = Kept(text, output)

Next ==
  \/ Construct
  \/ \E t \in Texts : RenderBegin(t)
  \/ RenderChar
  \/ RenderFinish
  \/ Release

Spec == Init /\ [][Next]_vars

\* several calls on one font, the first one kept
NextRepeat ==
  \/ Construct
  \/ \E t \in Texts : RenderBegin(t)
  \/ RenderChar
  \/ RenderFinish
  \/ Release
  \/ ReleaseKeeping

SpecRepeat == InitFrom(RepeatSources) /\ [][NextRepeat]_vars

\* the loader's specification: every definition text, then a few renders
NextLoader ==
  \/ Construct
  \/ \E t \in LoaderTexts : RenderBegin(t)
  \/ RenderChar
  \/ RenderFinish
  \/ Release

SpecLoader == InitFrom(LoaderSources) /\ [][NextLoader]_vars

\* calls through renderText
NextWrapper ==
  \/ Construct
  \/ \E t \in MixedTexts : RenderTextBegin(t)
  \/ RenderChar
  \/ RenderFinish
  \/ Release

SpecWrapper == InitFrom(PlainSources) /\ [][NextWrapper]_vars

----------------------------------------------------------------------------
(* Terminal and Router: new Router(new Terminal(), pages).start()          *)
(*                                                                         *)
(* What a read returns is a sequence of bytes; input[k] of the code is     *)
(* ByteAt(input, k), Undefined past the end.  A write to the terminal is a *)
(* record Wr(what, n); the pages are numbered from 0, page 0 the splash    *)
(* page.  A page's render and a read may throw.                            *)

Undefined == 0 - 1
ByteAt(input, k) == IF k < Len(input) THEN input[k + 1] ELSE Undefined

KeyQ == <<113>>
KeyEnter == <<13>>
KeyLeft == <<27, 91, 68>>
KeyRight == <<27, 91, 67>>
KeyUp == <<27, 91, 65>>
KeyEscape == <<27>>
KeyOther == <<120>>
KeysOtherThenQ == <<120, 113>>
EndOfInput == <<>>

\* what term.read() returns: the keys, and the empty buffer at end of input
Inputs ==
  {KeyQ, KeyEnter, KeyLeft, KeyRight, KeyUp, KeyEscape, KeyOther,
   KeysOtherThenQ, EndOfInput}

Wr(what, n) == [what |-> what, n |-> n]
AltScreen == Wr("ALT_SCREEN+HIDE_CURSOR", 0)
Restore == Wr("SHOW_CURSOR+EXIT_ALT_SCREEN", 0)
ClearHome == Wr("CLEAR+CURSOR_HOME", 0)
PageOutput(n) == Wr("page", n)
NavigationHelp == Wr("navigation help", 0)
NavigationBar(index) == Wr("navigation bar", index)

\* renderNavigation(): the help line, then the bar with the current page marked
RenderNavigation(log, index) ==
  log \o <<NavigationHelp, NavigationBar(index)>>

\* Router.render(): [written, threw]; the page throws when it is undefined
\* (pages[n] with n past the end) or when its own render fails (ok = FALSE)
RouterRender(log, splash, index, count, ok) ==
  LET cleared == Append(log, ClearHome)
      page == IF splash THEN 0 ELSE index + 1
  IN IF ~(page < count) \/ ~ok
     THEN [written |-> cleared, threw |-> TRUE]
     ELSE [written |-> IF splash THEN Append(cleared, PageOutput(page))
                       ELSE RenderNavigation(Append(cleared, PageOutput(page)), index),
           threw |-> FALSE]

\* mutant: the loop also ends at the end of input
IsQuitOrEnd(input) == ByteAt(input, 0) = 113 \/ input = <<>>

\* input[0] === 113
IsQuit(input) == ByteAt(input, 0) = 113

IsEnter(input) == ByteAt(input, 0) = 13
IsLeftArrow(input) ==
  ByteAt(input, 0) = 27 /\ ByteAt(input, 1) = 91 /\ ByteAt(input, 2) = 68
IsRightArrow(input) ==
  ByteAt(input, 0) = 27 /\ ByteAt(input, 1) = 91 /\ ByteAt(input, 2) = 67

\* mutant: the right arrow stops one page later
CanGoRightOneMore(index, count) == index < count - 1

\* this.currentPageIndex < this.pages.length - 2
CanGoRight(index, count) == index < count - 2

\* mutant: the arrows work on the splash screen too
KeyEffectArrowsOnSplash(input, splash, index, count) ==
  IF splash /\ IsEnter(input)
  THEN [splash |-> FALSE, index |-> index, render |-> TRUE]
  ELSE IF IsLeftArrow(input) /\ index > 0
  THEN [splash |-> splash, index |-> index - 1, render |-> TRUE]
  ELSE IF IsRightArrow(input) /\ CanGoRight(index, count)
  THEN [splash |-> splash, index |-> index + 1, render |-> TRUE]
  ELSE [splash |-> splash, index |-> index, render |-> FALSE]

\* the body of handleInput's loop after the test for q: the new
\* isOnSplashScreen and currentPageIndex, and whether render() is called
KeyEffect(input, splash, index, count) ==
  IF splash
  THEN IF IsEnter(input)
       THEN [splash |-> FALSE, index |-> index, render |-> TRUE]
       ELSE [splash |-> splash, index |-> index, render |-> FALSE]
  ELSE IF IsLeftArrow(input)
       THEN IF index > 0
            THEN [splash |-> splash, index |-> index - 1, render |-> TRUE]
            ELSE [splash |-> splash, index |-> index, render |-> FALSE]
       ELSE IF IsRightArrow(input)
       THEN IF CanGoRight(index, count)
            THEN [splash |-> splash, index |-> index + 1, render |-> TRUE]
            ELSE [splash |-> splash, index |-> index, render |-> FALSE]
       ELSE [splash |-> splash, index |-> index, render |-> FALSE]

\* no font in the program
FontOff ==
  /\ fontData = <<>>
  /\ pc = "off"
  /\ fontMap = EmptyMap
  /\ height = Num(DefaultHeight)
  /\ spaces = Num(DefaultSpaces)
  /\ text = <<>>
  /\ i = 0
  /\ result = NoCanvas
  /\ currentColumn = Num(0)
  /\ output = <<>>
  /\ placedAt = NaN
  /\ arg = NoArg
  /\ earlier = NoCall

\* the program before new Terminal(): stdin is a terminal in raw or normal
\* mode, or no terminal; the router will be given 1..MaxPages pages
InitRouter ==
  /\ FontOff
  /\ stdinIsTerminal \in BOOLEAN
  /\ stdinRaw \in BOOLEAN
  /\ stdinIsTerminal = FALSE => stdinRaw = FALSE
  /\ rawBefore = stdinRaw
  /\ previousRawMode = FALSE
  /\ pagesLength \in 1..MaxPages
  /\ currentPageIndex = 0
  /\ running = TRUE
  /\ isOnSplashScreen = TRUE
  /\ rpc = "boot"
  /\ thrown = FALSE
  /\ written = <<>>
  /\ reads = 0
  /\ lastInput = <<>>
  /\ writtenAtRead = 0
  /\ leftBy = "notEntered"

\* new Terminal(): setRaw throws when stdin is no terminal
TerminalConstruct ==
  /\ rpc = "boot"
  /\ previousRawMode' = stdinIsTerminal
  /\ IF stdinIsTerminal
     THEN stdinRaw' = TRUE /\ rpc' = "terminal"
     ELSE UNCHANGED stdinRaw /\ rpc' = "noTerminal"
  /\ UNCHANGED <<stdinIsTerminal, rawBefore, pagesLength, currentPageIndex,
                 running, isOnSplashScreen, thrown, written, reads, lastInput,
                 writtenAtRead, leftBy>>
  /\ UNCHANGED fontVars

\* new Router(term, pages)
RouterConstruct ==
  /\ rpc = "terminal"
  /\ currentPageIndex' = 0
  /\ running' = TRUE
  /\ isOnSplashScreen' = TRUE
  /\ rpc' = "constructed"
  /\ UNCHANGED <<stdinIsTerminal, stdinRaw, rawBefore, previousRawMode,
                 pagesLength, thrown, written, reads, lastInput, writtenAtRead,
                 leftBy>>
  /\ UNCHANGED fontVars

\* start(), up to the first read: the alternate screen and the first render
StartBegin ==
  /\ rpc = "constructed"
  /\ \E ok \in BOOLEAN :
       LET r == RouterRender(<<AltScreen>>, isOnSplashScreen, currentPageIndex,
                             pagesLength, ok)
       IN /\ written' = r.written
          /\ thrown' = r.threw
          /\ rpc' = IF r.threw THEN "finally" ELSE "reading"
          /\ leftBy' = IF r.threw THEN "notEntered" ELSE "inside"
  /\ UNCHANGED <<stdinIsTerminal, stdinRaw, rawBefore, previousRawMode,
                 pagesLength, currentPageIndex, running, isOnSplashScreen,
                 reads, lastInput, writtenAtRead>>
  /\ UNCHANGED fontVars

\* one turn of handleInput's loop: the read returns input
HandleInput(input) ==
  /\ rpc = "reading"
  /\ running
  /\ reads < MaxReads
  /\ reads' = reads + 1
  /\ lastInput' = input
  /\ writtenAtRead' = Len(written)
  /\ IF IsQuit(input)
     THEN /\ running' = FALSE
          /\ rpc' = "finally"
          /\ leftBy' = "quit"
          /\ UNCHANGED <<currentPageIndex, isOnSplashScreen, written, thrown>>
     ELSE LET e == KeyEffect(input, isOnSplashScreen, currentPageIndex, pagesLength)
          IN /\ isOnSplashScreen' = e.splash
             /\ currentPageIndex' = e.index
             /\ UNCHANGED running
             /\ IF e.render
                THEN \E ok \in BOOLEAN :
                       LET r == RouterRender(written, e.splash, e.index,
                                             pagesLength, ok)
                       IN /\ written' = r.written
                          /\ thrown' = r.threw
                          /\ rpc' = IF r.threw THEN "finally" ELSE "reading"
                          /\ leftBy' = IF r.threw THEN "error" ELSE "inside"
                ELSE UNCHANGED <<written, thrown, rpc, leftBy>>
  /\ UNCHANGED <<stdinIsTerminal, stdinRaw, rawBefore, previousRawMode, pagesLength>>
  /\ UNCHANGED fontVars

\* the read throws
ReadThrows ==
  /\ rpc = "reading"
  /\ running
  /\ reads < MaxReads
  /\ reads' = reads + 1
  /\ thrown' = TRUE
  /\ rpc' = "finally"
  /\ leftBy' = "error"
  /\ UNCHANGED <<stdinIsTerminal, stdinRaw, rawBefore, previousRawMode,
                 pagesLength, currentPageIndex, running, isOnSplashScreen,
                 written, lastInput, writtenAtRead>>
  /\ UNCHANGED fontVars

\* mutant: start without try/finally: the terminal is restored on return only
StartFinallyOnReturnOnly ==
  /\ rpc = "finally"
  /\ IF thrown
     THEN UNCHANGED <<written, stdinRaw>>
     ELSE /\ written' = Append(written, Restore)
          /\ stdinRaw' = previousRawMode
  /\ rpc' = IF thrown THEN "failed" ELSE "finished"
  /\ UNCHANGED <<stdinIsTerminal, rawBefore, previousRawMode, pagesLength,
                 currentPageIndex, running, isOnSplashScreen, thrown, reads,
                 lastInput, writtenAtRead, leftBy>>
  /\ UNCHANGED fontVars

\* the finally block of start, then start returns or throws on
StartFinally ==
  /\ rpc = "finally"
  /\ written' = Append(written, Restore)
  /\ stdinRaw' = previousRawMode
  /\ rpc' = IF thrown THEN "failed" ELSE "finished"
  /\ UNCHANGED <<stdinIsTerminal, rawBefore, previousRawMode, pagesLength,
                 currentPageIndex, running, isOnSplashScreen, thrown, reads,
                 lastInput, writtenAtRead, leftBy>>
  /\ UNCHANGED fontVars

NextRouter ==
  \/ TerminalConstruct
  \/ RouterConstruct
  \/ StartBegin
  \/ \E input \in Inputs : HandleInput(input)
  \/ ReadThrows
  \/ StartFinally

SpecRouter == InitRouter /\ [][NextRouter]_vars

----------------------------------------------------------------------------
(* Vocabulary of the properties *)

Constructed == pc # "new"

\* the characters render can draw: single-character keys of the font
HasGlyph(c) == <<c>> \in DOMAIN fontMap

\* the text without the characters that have no glyph and are not the space
IsKnown(c) == c = Blank \/ HasGlyph(c)
StripUnknown(t) == SelectSeq(t, IsKnown)

\* the longest of the rows 0..h-1 of a glyph: the columns it occupies
DrawnWidth(glyph, h) == SetMax({0} \cup {Len(GlyphRow(glyph, r)) : r \in 0..(h - 1)})

\* every row 0..h-1 of the glyph exists and has the same length
IsRectangular(glyph, h) ==
  /\ Len(glyph) >= h
  /\ \A r \in 0..(h - 1) : Len(GlyphRow(glyph, r)) = Len(GlyphRow(glyph, 0))

\* a font as the definition format describes it: numeric parameters, a
\* non-negative space width, every glyph of height rows
WellFormedFont ==
  /\ IsNum(height) /\ IsNum(spaces) /\ spaces.v >= 0
  /\ \A key \in DOMAIN fontMap : Len(fontMap[key]) = height.v

\* the lines of the returned string
OutputLines == Split(output, "\n")

\* the text is glyph, space, glyph
IsSpacedPair ==
  /\ Len(text) = 3
  /\ HasGlyph(text[1]) /\ text[1] # Blank
  /\ text[2] = Blank
  /\ HasGlyph(text[3]) /\ text[3] # Blank

----------------------------------------------------------------------------
(* C1: deleting from the text the characters without a glyph (other than   *)
(* the space) does not change what render returns.  Stated for the fonts  *)
(* whose glyphs all have height rows and the texts that draw a glyph.      *)

C1_UnknownCharsInvisible ==
  (/\ pc = "returned" /\ WellFormedFont
   /\ \E k \in 1..Len(text) : text[k] # Blank /\ HasGlyph(text[k]))
    => LET stripped == Render(fontMap, height, spaces, StripUnknown(text))
       IN ~stripped.threw /\ stripped.value = output

----------------------------------------------------------------------------
(* C2: in render("X Y") exactly spaceWidth columns lie between the last    *)
(* column occupied by X and the first column of Y, all blank in every row. *)
(* Stated for the fonts whose glyphs all have height rows, and a glyph X   *)
(* whose rows have one length.                                             *)

C2_GapIsSpaceWidth ==
  (/\ pc = "returned" /\ IsSpacedPair
   /\ WellFormedFont /\ height.v >= 1
   /\ IsRectangular(fontMap[<<text[1]>>], height.v))
    => /\ IsNum(placedAt)
       /\ placedAt.v - DrawnWidth(fontMap[<<text[1]>>], height.v) = spaces.v

(* C2 amended: in render("X Y") the glyph Y is composed at column          *)
(* b + 1 + spaceWidth, b the length of row height-1 of X (0 when X has no  *)
(* such row); when X has height rows all of length b and spaceWidth >= 0,  *)
(* spaceWidth + 1 columns lie between X and Y, blank in every row.         *)

C2_GapIsSpaceWidthPlusOne ==
  (pc = "returned" /\ IsSpacedPair)
    => LET X == fontMap[<<text[1]>>]
           b == Len(GlyphRow(X, height.v - 1))
           w == DrawnWidth(X, height.v)
       IN /\ placedAt = Add(Num(b + 1), spaces)
          /\ (IsNum(spaces) /\ spaces.v >= 0 /\ IsRectangular(X, height.v))
               => /\ placedAt.v - w = spaces.v + 1
                  /\ \A r \in 1..height.v : \A c \in w..(placedAt.v - 1) :
                       /\ Len(OutputLines[r]) > c
                       /\ OutputLines[r][c + 1] = Blank

C2_Witness ==
  /\ pc = "returned" /\ IsSpacedPair
  /\ IsNum(spaces) /\ spaces.v > 0
  /\ IsRectangular(fontMap[<<text[1]>>], height.v)
  /\ height.v >= 2
  /\ placedAt.v - DrawnWidth(fontMap[<<text[1]>>], height.v) = spaces.v + 1

----------------------------------------------------------------------------
(* C3: during a render call a canvas cell that holds a non-blank character *)
(* keeps it: only unset or blank cells are written.                        *)

C3_FirstWriteWins ==
  [][(pc = "loop" /\ pc' \in {"loop", "returned"})
       => /\ DOMAIN result'.rows = DOMAIN result.rows
          /\ \A r \in DOMAIN result.rows : \A k \in DOMAIN result.rows[r] :
               /\ k \in DOMAIN result'.rows[r]
               /\ result.rows[r][k] # Blank
                    => result'.rows[r][k] = result.rows[r][k]]_vars

\* the glyph composed last met a cell that held other ink, and the ink stayed
C3_Witness ==
  /\ pc = "loop" /\ i >= 2
  /\ text[i] # Blank /\ HasGlyph(text[i])
  /\ IsNum(placedAt)
  /\ \E r \in 1..height.v :
       LET charRow == GlyphRow(fontMap[<<text[i]>>], r - 1)
       IN \E col \in 0..(Len(charRow) - 1) :
            LET k == Num(placedAt.v + col)
            IN /\ k \in DOMAIN result.rows[r]
               /\ result.rows[r][k] # Blank
               /\ charRow[col + 1] # Blank
               /\ result.rows[r][k] # charRow[col + 1]

----------------------------------------------------------------------------
(* C4: during a render call the cursor starts at 0, is never negative and  *)
(* never decreases from one processed character to the next.               *)

C4_CursorMonotone ==
  [][/\ (pc = "idle" /\ pc' = "loop") => currentColumn' = Num(0)
     /\ (pc = "loop" /\ pc' = "loop")
          => /\ IsNum(currentColumn) /\ IsNum(currentColumn')
             /\ currentColumn'.v >= 0
             /\ currentColumn'.v >= currentColumn.v]_vars

----------------------------------------------------------------------------
(* C5: for every constructed font and every text, render returns and never *)
(* throws.                                                                 *)

C5_RenderNeverThrows == pc # "threw"

----------------------------------------------------------------------------
(* C6: a definition whose first line is a directive with a non-numeric     *)
(* height or spaces value is rejected: no font is constructed from it.     *)

\* an optional minus sign and then digits only
IsInteger(v) ==
  LET ds == IF v # <<>> /\ Head(v) = "-" THEN Tail(v) ELSE v
  IN ds # <<>> /\ \A k \in 1..Len(ds) : IsDigit(ds[k])

MalformedDirective(data) ==
  LET first == Split(data, "\n")[1]
      tokens == Split(first, " ")
  IN /\ StartsWith(first, DefineMarker)
     /\ \E n \in 1..Len(tokens) :
          /\ StartsWith(tokens[n], HeightPrefix) \/ StartsWith(tokens[n], SpacesPrefix)
          /\ ~IsInteger(SubSeq(tokens[n], Len(HeightPrefix) + 1, Len(tokens[n])))

C6_MalformedDirectiveRejected == Constructed => ~MalformedDirective(fontData)

----------------------------------------------------------------------------
(* C7: after parsing, every glyph stored in the font has exactly height    *)
(* rows.                                                                   *)

C7_GlyphRowsEqualHeight ==
  Constructed
    => \A key \in DOMAIN fontMap : IsNum(height) /\ Len(fontMap[key]) = height.v

(* C7 amended: after parsing, every glyph stored in the font has at least  *)
(* one row; its row count is that of its block and need not be height.     *)

C7_GlyphRowsAtLeastOne ==
  Constructed => \A key \in DOMAIN fontMap : Len(fontMap[key]) >= 1

\* a font whose directive sets the height, with a glyph of fewer rows
C7_Witness ==
  /\ Constructed /\ StartsWith(fontData, DefineMarker)
  /\ IsNum(height) /\ height.v >= 1
  /\ \E key \in DOMAIN fontMap : Len(fontMap[key]) < height.v

----------------------------------------------------------------------------
(* C8: a non-empty string returned by render has exactly height lines,     *)
(* whatever the row counts of the glyphs.                                  *)

C8_HeightLines ==
  (pc = "returned" /\ output # <<>>)
    => IsNum(height) /\ Len(OutputLines) = height.v

C8_Witness ==
  /\ pc = "returned" /\ output # <<>>
  /\ \E k \in 1..Len(text) :
       /\ HasGlyph(text[k]) /\ text[k] # Blank
       /\ Len(fontMap[<<text[k]>>]) # height.v
  /\ \E k \in 1..Len(output) : output[k] \notin {Blank, "\n"}

----------------------------------------------------------------------------
(* C9: all lines of the returned string have one length, the greatest row  *)
(* length of the canvas; unset cells are blank and every written cell of   *)
(* the canvas shows unchanged.                                             *)

C9_Normalised ==
  (pc = "returned" /\ Len(text) > 0)
    => LET rows == result.rows
           longest == SetMax({0} \cup {RowLength(rows[r]) : r \in DOMAIN rows})
       IN IF height.v = 0 THEN output = <<>>
          ELSE /\ Len(OutputLines) = height.v
               /\ \A r \in 1..height.v :
                    /\ Len(OutputLines[r]) = longest
                    /\ \A c \in 0..(longest - 1) :
                         OutputLines[r][c + 1] =
                           IF Num(c) \in DOMAIN rows[r] THEN rows[r][Num(c)] ELSE Blank

\* a row shorter than the longest one, and an unset gap inside a row
C9_Witness ==
  /\ pc = "returned" /\ Len(text) > 0 /\ height.v >= 2
  /\ \E r1, r2 \in DOMAIN result.rows :
       /\ RowLength(result.rows[r1]) < RowLength(result.rows[r2])
       /\ \E c \in 0..(RowLength(result.rows[r2]) - 1) :
            /\ Num(c) \notin DOMAIN result.rows[r2]
            /\ \E d \in 0..(c - 1) : Num(d) \in DOMAIN result.rows[r2]

----------------------------------------------------------------------------
(* C10: render("") returns the empty string for every font, and creates no *)
(* canvas.                                                                 *)

C10_EmptyText ==
  (pc \in {"loop", "returned", "threw"} /\ Len(text) = 0)
    => pc = "returned" /\ output = <<>> /\ result = NoCanvas

\* the empty text on a font whose height lets no canvas be allocated
C10_Witness ==
  pc = "returned" /\ Len(text) = 0 /\ (height.nan \/ height.v < 0) /\ output = <<>>

----------------------------------------------------------------------------
(* C11: for two glyphs X and Y of the font, render("XY") is narrower than  *)
(* width(X) + width(Y), width being the glyph's longest row, and every     *)
(* cell that X inked still shows X's character.                            *)

\* the longest row of a glyph
GlyphWidth(glyph) == SetMax({Len(glyph[r]) : r \in DOMAIN glyph})

\* the text is two glyphs side by side
IsAdjacentPair ==
  /\ Len(text) = 2
  /\ HasGlyph(text[1]) /\ text[1] # Blank
  /\ HasGlyph(text[2]) /\ text[2] # Blank

C11_KernedPair ==
  (pc = "returned" /\ IsAdjacentPair)
    => LET X == fontMap[<<text[1]>>]
           Y == fontMap[<<text[2]>>]
       IN /\ \A r \in 1..Len(OutputLines) :
               Len(OutputLines[r]) < GlyphWidth(X) + GlyphWidth(Y)
          /\ \A r \in 1..height.v : \A c \in 1..Len(GlyphRow(X, r - 1)) :
               X[r][c] # Blank
                 => Len(OutputLines[r]) >= c /\ OutputLines[r][c] = X[r][c]

\* Y's first column lands on ink of X that differs from Y's own
C11_Witness ==
  /\ pc = "returned" /\ IsAdjacentPair /\ text[1] # text[2]
  /\ IsNum(placedAt) /\ placedAt.v >= 1
  /\ \E r \in 1..height.v :
       LET xRow == GlyphRow(fontMap[<<text[1]>>], r - 1)
           yRow == GlyphRow(fontMap[<<text[2]>>], r - 1)
       IN /\ Len(yRow) >= 1 /\ Len(xRow) > placedAt.v
          /\ yRow[1] # Blank /\ xRow[placedAt.v + 1] # Blank
          /\ yRow[1] # xRow[placedAt.v + 1]
          /\ OutputLines[r][placedAt.v + 1] = xRow[placedAt.v + 1]

----------------------------------------------------------------------------
(* C12: for a glyph G of exactly height rows, render of the one-character  *)
(* text naming G returns G's rows in order, each padded with blanks to G's *)
(* longest row, joined by line breaks.                                     *)

\* a row padded on the right with blanks to length n
PadRight(row, n) == [c \in 1..n |-> IF c <= Len(row) THEN row[c] ELSE Blank]

IsSingleGlyph ==
  /\ Len(text) = 1 /\ text[1] # Blank /\ HasGlyph(text[1])
  /\ IsNum(height) /\ Len(fontMap[<<text[1]>>]) = height.v

C12_SingleGlyph ==
  (pc = "returned" /\ IsSingleGlyph)
    => LET G == fontMap[<<text[1]>>]
       IN OutputLines = [r \in 1..Len(G) |-> PadRight(G[r], GlyphWidth(G))]

\* a glyph of height rows of different lengths: padding happens
C12_Witness ==
  /\ pc = "returned" /\ IsSingleGlyph /\ height.v >= 2
  /\ \E r \in 1..height.v :
       Len(fontMap[<<text[1]>>][r]) < GlyphWidth(fontMap[<<text[1]>>])
  /\ Len(output) > 0

----------------------------------------------------------------------------
(* C13: render leaves the font unchanged and keeps nothing between calls:  *)
(* a later call with the text of an earlier call returns the same string,  *)
(* whatever was rendered in between.                                       *)

C13_RenderIsPure ==
  /\ [][Constructed
          => fontMap' = fontMap /\ height' = height /\ spaces' = spaces]_vars
  /\ []((pc = "returned" /\ earlier.kept /\ earlier.text = text)
          => output = earlier.value)

\* the kept text is rendered again after a call with another text
C13_Witness ==
  /\ pc = "returned" /\ earlier.kept /\ earlier.text = text
  /\ Len(text) = 2 /\ HasGlyph(text[1]) /\ HasGlyph(text[2])
  /\ output = earlier.value /\ Len(output) > 0

----------------------------------------------------------------------------
(* The definition text as the format describes it: glyph blocks *)

SourceLines == Split(fontData, "\n")

\* the line after the last line of the block that starts at line s
BlockEnd(s) ==
  LET later == {e \in (s + 1)..Len(SourceLines) : IsGlyphStart(SourceLines[e])}
  IN IF later = {} THEN Len(SourceLines) + 1
     ELSE CHOOSE e \in later : \A f \in later : e <= f

\* the non-blank lines of the block that starts at line s, in source order
BlockRows(s) == SelectSeq(SubSeq(SourceLines, s + 1, BlockEnd(s) - 1), TrimNotEmpty)

BlockKey(s) == GlyphKey(SourceLines[s])

\* a block with a key and at least one row
WellFormedBlocks ==
  {s \in 1..Len(SourceLines) :
     /\ IsGlyphStart(SourceLines[s])
     /\ BlockKey(s) # <<>>
     /\ Len(BlockRows(s)) > 0}

(* C14: the number of entries of the parsed font is the number of distinct *)
(* keys among the well-formed glyph blocks of the definition text.         *)

C14_ParseCount ==
  Constructed
    => Cardinality(DOMAIN fontMap)
         = Cardinality({BlockKey(s) : s \in WellFormedBlocks})

----------------------------------------------------------------------------
\* the glyph-start lines that introduce key k
StartsOfKey(k) ==
  {s \in 1..Len(SourceLines) : IsGlyphStart(SourceLines[s]) /\ BlockKey(s) = k}

LastStart(k) == SetMax(StartsOfKey(k))

\* the keys introduced by several glyph-start lines
RepeatedKeys ==
  {k \in {BlockKey(s) : s \in {n \in 1..Len(SourceLines) : IsGlyphStart(SourceLines[n])}} :
     Cardinality(StartsOfKey(k)) >= 2}

\* the rows of a block, each split into cells
GlyphOfRows(rows) == [r \in 1..Len(rows) |-> Cells(rows[r])]

(* C15 as stated: a key introduced by several glyph-start lines is mapped  *)
(* to the rows of the last block with that key, whatever that block holds. *)

C15_LastBlockAlwaysWins ==
  Constructed
    => \A k \in RepeatedKeys \ {<<>>} :
         MapGet(fontMap, k) = <<GlyphOfRows(BlockRows(LastStart(k)))>>

(* C15: a non-empty key introduced by several glyph-start lines is mapped  *)
(* to the rows of the last block with that key when that block has at      *)
(* least one row; a last block without rows is not stored, so the key then *)
(* has no entry or one with rows.                                          *)

C15_LastBlockWithRowsWins ==
  Constructed
    => \A k \in RepeatedKeys \ {<<>>} :
         IF Len(BlockRows(LastStart(k))) > 0
         THEN MapGet(fontMap, k) = <<GlyphOfRows(BlockRows(LastStart(k)))>>
         ELSE k \in DOMAIN fontMap => Len(fontMap[k]) > 0

\* two blocks of one key with different rows: the font holds the later rows
C15_Witness ==
  /\ Constructed
  /\ \E k \in RepeatedKeys \ {<<>>} :
       /\ Len(BlockRows(LastStart(k))) > 0
       /\ \E s \in StartsOfKey(k) :
            /\ s < LastStart(k)
            /\ s \in WellFormedBlocks
            /\ BlockRows(s) # BlockRows(LastStart(k))
       /\ MapGet(fontMap, k) = <<GlyphOfRows(BlockRows(LastStart(k)))>>

----------------------------------------------------------------------------
\* the space-separated tokens of the first line
FirstLineTokens == Split(SourceLines[1], " ")

\* the tokens prefix<int>, as their integers
IsUnsignedInt(ds) == Len(ds) > 0 /\ \A k \in 1..Len(ds) : IsDigit(ds[k])

TokensOf(prefix) ==
  {n \in 1..Len(FirstLineTokens) : StartsWith(FirstLineTokens[n], prefix)}

TokenText(n, prefix) ==
  SubSeq(FirstLineTokens[n], Len(prefix) + 1, Len(FirstLineTokens[n]))

\* a parameter is its single token's integer, or its default without a token
ParameterAgrees(actual, prefix, default) ==
  /\ TokensOf(prefix) = {} => actual = Num(default)
  /\ \A n \in TokensOf(prefix) :
       (TokensOf(prefix) = {n} /\ IsUnsignedInt(TokenText(n, prefix)))
         => actual = Num(DigitsValue(TokenText(n, prefix)))

(* C16: without a directive first line height is 5 and spaceWidth is 4;    *)
(* with one, the height= token sets height and the spaces= token sets      *)
(* spaceWidth, each on its own, and a parameter without token keeps its    *)
(* default.                                                                *)

C16_DirectiveParameters ==
  Constructed
    => IF IsDirective(SourceLines)
       THEN /\ ParameterAgrees(height, HeightPrefix, DefaultHeight)
            /\ ParameterAgrees(spaces, SpacesPrefix, DefaultSpaces)
       ELSE height = Num(DefaultHeight) /\ spaces = Num(DefaultSpaces)

\* a directive with a spaces token and no height token
C16_Witness ==
  /\ Constructed
  /\ IsDirective(SourceLines)
  /\ TokensOf(HeightPrefix) = {}
  /\ \E n \in TokensOf(SpacesPrefix) : IsUnsignedInt(TokenText(n, SpacesPrefix))
  /\ height = Num(DefaultHeight)
  /\ spaces # Num(DefaultSpaces)

----------------------------------------------------------------------------
\* the text with each lower-case letter replaced by its capital
Capital(c) == IF c = "a" THEN "A" ELSE IF c = "b" THEN "B" ELSE c
Capitalised(t) == [k \in 1..Len(t) |-> Capital(t[k])]

\* the arguments that differ from t only in letter case
VariantsOfChar(c) == {d \in MixedChars : Capital(d) = Capital(c)}

RECURSIVE CaseVariants(_)
CaseVariants(t) ==
  IF t = <<>> THEN {<<>>}
  ELSE {<<d>> \o u : d \in VariantsOfChar(Head(t)), u \in CaseVariants(Tail(t))}

(* C17: renderText(t) is render of t in upper case, so arguments that      *)
(* differ only in letter case give the same banner.                        *)

C17_UppercaseBeforeLookup ==
  (pc = "returned" /\ arg.given)
    => /\ output = Render(fontMap, height, spaces, Capitalised(arg.text)).value
       /\ \A u \in CaseVariants(arg.text) :
            RenderText(fontMap, height, spaces, u).value = output

\* a lower-case argument drawn with the glyphs of its capitals
C17_Witness ==
  /\ pc = "returned" /\ arg.given
  /\ Len(arg.text) = 2
  /\ arg.text[1] = "a" /\ arg.text[2] = "B"
  /\ HasGlyph("A") /\ HasGlyph("B")
  /\ text # arg.text
  /\ Len(output) > 0
  /\ output = Render(fontMap, height, spaces, <<"A", "B">>).value

----------------------------------------------------------------------------
\* the loop is about to compose the glyph of text[i + 1]
AtGlyph == pc = "loop" /\ i < Len(text) /\ HasGlyph(text[i + 1])

\* a next glyph exists for kerning: the following character exists, is not
\* a space and has a glyph
HasNextGlyph ==
  /\ i + 2 <= Len(text)
  /\ text[i + 2] # Blank
  /\ HasGlyph(text[i + 2])

\* column + 1 of the rightmost column of row r of glyph X whose cell is the
\* cell `cell` (<<>> when there is none), neither blank; 0 without such column
RightmostMatch(X, r, cell) ==
  SetMax({0} \cup {c \in 1..Len(GlyphRow(X, r)) :
                     /\ cell # <<>>
                     /\ GlyphRow(X, r)[c] = cell[1]
                     /\ GlyphRow(X, r)[c] # Blank})

\* the cell of row r, column 0 of glyph Y
FirstCell(Y, r) == IF GlyphRow(Y, r) = <<>> THEN <<>> ELSE <<GlyphRow(Y, r)[1]>>

\* the length of row height - 1 of glyph X
BottomRowLength(X) == Len(GlyphRow(X, height.v - 1))

AdvanceAgainstTopRow(X, Y) ==
  SetMax({BottomRowLength(X)}
           \cup {RightmostMatch(X, r, FirstCell(Y, 0)) : r \in 0..(height.v - 1)})

AdvanceAgainstSameRow(X, Y) ==
  SetMax({BottomRowLength(X)}
           \cup {RightmostMatch(X, r, FirstCell(Y, r)) : r \in 0..(height.v - 1)})

(* C18 as stated: the advance width of a glyph followed by a next glyph is *)
(* the maximum of its bottom row's length and, over every row, column + 1  *)
(* of the rightmost column whose cell equals the next glyph's row-0,       *)
(* column-0 cell, neither blank; without next glyph it is the bottom row's *)
(* length.                                                                 *)

C18_AdvanceAgainstTopRow ==
  [][(AtGlyph /\ WellFormedFont)
       => currentColumn'
            = Advance(currentColumn, text, i,
                      IF HasNextGlyph
                      THEN AdvanceAgainstTopRow(fontMap[<<text[i + 1]>>],
                                                fontMap[<<text[i + 2]>>])
                      ELSE BottomRowLength(fontMap[<<text[i + 1]>>]))]_vars

(* C18: each row of the current glyph is compared with the column-0 cell   *)
(* of the same row of the next glyph: the advance width is the maximum of  *)
(* the length of row height-1 of the current glyph and, over every row r,  *)
(* column + 1 of the rightmost column of row r whose cell equals the next  *)
(* glyph's row-r, column-0 cell, neither blank; without next glyph it is   *)
(* the length of row height-1.                                             *)

C18_AdvanceAgainstSameRow ==
  [][AtGlyph
       => currentColumn'
            = Advance(currentColumn, text, i,
                      IF HasNextGlyph
                      THEN AdvanceAgainstSameRow(fontMap[<<text[i + 1]>>],
                                                 fontMap[<<text[i + 2]>>])
                      ELSE BottomRowLength(fontMap[<<text[i + 1]>>]))]_vars

\* a glyph was composed whose advance before the next glyph is wider than
\* its bottom row and is not the advance the top row of the next glyph gives
C18_Witness ==
  /\ pc = "loop" /\ i >= 1 /\ i < Len(text)
  /\ HasGlyph(text[i]) /\ HasGlyph(text[i + 1])
  /\ IsNum(placedAt) /\ IsNum(currentColumn)
  /\ LET X == fontMap[<<text[i]>>]
         Y == fontMap[<<text[i + 1]>>]
     IN /\ AdvanceAgainstSameRow(X, Y) > BottomRowLength(X)
        /\ AdvanceAgainstSameRow(X, Y) # AdvanceAgainstTopRow(X, Y)
        /\ currentColumn.v = placedAt.v + AdvanceAgainstSameRow(X, Y) - 1

----------------------------------------------------------------------------
\* the advance width render computes for the glyph of text[i + 1]
AdvanceWidth ==
  GetBottomRightPosition(fontMap[<<text[i + 1]>>], NextChar2D(fontMap, text, i),
                         height.v)

(* C19: after a glyph is composed the cursor moves by advanceWidth - 1     *)
(* exactly when a next glyph exists for kerning, and by advanceWidth + 1   *)
(* at the end of the text, before a space and before a character without   *)
(* glyph.                                                                  *)

C19_CursorStep ==
  [][(AtGlyph /\ WellFormedFont)
       => currentColumn'
            = Add(currentColumn,
                  Num(IF HasNextGlyph THEN AdvanceWidth - 1 ELSE AdvanceWidth + 1))]_vars

----------------------------------------------------------------------------
\* the blocks with a key and rows that no later such block of the same key
\* replaces
StandingBlocks ==
  {s \in WellFormedBlocks :
     \A t \in WellFormedBlocks : BlockKey(t) = BlockKey(s) => t <= s}

(* C20: the glyph stored under the key of a glyph block is exactly the     *)
(* non-blank lines between its glyph-start line and the next glyph-start   *)
(* line or the end of input, in source order, each split into cells; the   *)
(* block pending at the end of input is stored too.                        *)

C20_BlockRowsStored ==
  Constructed
    => \A s \in StandingBlocks :
         MapGet(fontMap, BlockKey(s)) = <<GlyphOfRows(BlockRows(s))>>

----------------------------------------------------------------------------
\* the lines after a directive and the blank line that follows it: a line
\* after the directive that is not blank stays
LinesAfterHeader ==
  IF Len(SourceLines) >= 2 /\ ~TrimNotEmpty(SourceLines[2])
  THEN SubSeq(SourceLines, 3, Len(SourceLines))
  ELSE SubSeq(SourceLines, 2, Len(SourceLines))

(* C21: with a directive first line, header removal discards that line and *)
(* the blank line after it and nothing else: the font is the one scanned   *)
(* from all other lines, a glyph-start line directly after the directive   *)
(* included.                                                               *)

C21_HeaderRemovalOnlyBlank ==
  (Constructed /\ IsDirective(SourceLines))
    => fontMap = ScanLines(LinesAfterHeader, 1, EmptyMap, <<>>, <<>>)

----------------------------------------------------------------------------
\* a glyph-start line has the marker, a key (maybe empty) and a closing quote
IsClosedStart(line) ==
  StartsWith(line, GlyphOpen) /\ EndsWith(line, GlyphClose) /\ Len(line) >= 3

\* a line that begins with the marker and lacks the closing quote
IsUnclosed(line) == StartsWith(line, GlyphOpen) /\ ~IsClosedStart(line)

ClosedStartsBefore(n) == {s \in 1..(n - 1) : IsClosedStart(SourceLines[s])}
ClosedStartsAfter(n) ==
  {s \in (n + 1)..Len(SourceLines) : IsClosedStart(SourceLines[s])}

\* the non-blank lines from line s + 1 to the next glyph-start line with a
\* closing quote, or to the end of input
RowsUntilClosedStart(s) ==
  LET e == IF ClosedStartsAfter(s) = {} THEN Len(SourceLines) + 1
           ELSE CHOOSE x \in ClosedStartsAfter(s) : \A y \in ClosedStartsAfter(s) : x <= y
  IN SelectSeq(SubSeq(SourceLines, s + 1, e - 1), TrimNotEmpty)

(* C22: a line that begins with the glyph-open marker and lacks the        *)
(* closing quote starts no glyph: it is a row of the glyph being built,    *)
(* whose key stays. Stated for texts without directive and for a glyph     *)
(* whose key is not introduced again further down.                         *)

C22_UnclosedLineIsRow ==
  (Constructed /\ ~IsDirective(SourceLines))
    => \A n \in 1..Len(SourceLines) :
         (IsUnclosed(SourceLines[n]) /\ ClosedStartsBefore(n) # {})
           => LET s == SetMax(ClosedStartsBefore(n))
                  k == GlyphKey(SourceLines[s])
              IN (k # <<>> /\ \A t \in ClosedStartsAfter(s) : GlyphKey(SourceLines[t]) # k)
                   => MapGet(fontMap, k) = <<GlyphOfRows(RowsUntilClosedStart(s))>>

----------------------------------------------------------------------------
(* C23: the step of render for a character that is not a space and has no  *)
(* glyph leaves the canvas and the cursor as they were.                    *)

C23_UnknownStepChangesNothing ==
  [][(pc = "loop" /\ i < Len(text) /\ i' = i + 1
        /\ text[i + 1] # Blank /\ ~HasGlyph(text[i + 1]))
       => result' = result /\ currentColumn' = currentColumn]_vars

\* a character without glyph was stepped over after a glyph was composed
C23_Witness ==
  /\ pc = "loop" /\ i >= 2
  /\ text[i] # Blank /\ ~HasGlyph(text[i])
  /\ HasGlyph(text[i - 1])
  /\ IsNum(placedAt) /\ IsNum(currentColumn) /\ currentColumn.v > placedAt.v
  /\ \E r \in 1..Len(result.rows) : RowLength(result.rows[r]) > 0

----------------------------------------------------------------------------
(* C24: every row stored in a glyph of a parsed font has a character that  *)
(* is not whitespace, and no stored glyph has zero rows: a line of spaces  *)
(* inside a glyph block is discarded, not stored as a blank row.           *)

C24_NoBlankRowStored ==
  Constructed
    => \A k \in DOMAIN fontMap :
         /\ Len(fontMap[k]) > 0
         /\ \A r \in 1..Len(fontMap[k]) :
              \E c \in 1..Len(fontMap[k][r]) : fontMap[k][r][c] \notin WhiteSpace

\* a line of spaces between two rows of a stored glyph: the glyph has the
\* two rows only
C24_Witness ==
  /\ Constructed
  /\ \E n \in 2..(Len(SourceLines) - 2) :
       /\ IsGlyphStart(SourceLines[n - 1])
       /\ SourceLines[n] = <<"/", "_">>
       /\ SourceLines[n + 1] = <<" ">>
       /\ SourceLines[n + 2] = <<"_">>
       /\ MapGet(fontMap, GlyphKey(SourceLines[n - 1]))
            = << << <<"/", "_">>, <<"_">> >> >>

----------------------------------------------------------------------------
\* the router exists
RouterConstructed ==
  rpc \in {"constructed", "reading", "finally", "finished", "failed"}

\* the pages written to the terminal after the first render of start
PagesAfterSplash ==
  {written[k].n : k \in {j \in 4..Len(written) : written[j].what = "page"}}

(* C25: in a router with at least two pages currentPageIndex stays within  *)
(* 0..pages.length-2 whatever is typed, so every page rendered after the    *)
(* splash screen is one of pages[1..length-1].                             *)

C25_PageIndexInRange ==
  (RouterConstructed /\ pagesLength >= 2)
    => /\ currentPageIndex \in 0..(pagesLength - 2)
       /\ PagesAfterSplash \subseteq 1..(pagesLength - 1)
       /\ ~isOnSplashScreen => (currentPageIndex + 1) \in 1..(pagesLength - 1)

\* on the last page, a right arrow was read and nothing was rendered
C25_Witness ==
  /\ rpc = "reading" /\ pagesLength >= 3
  /\ ~isOnSplashScreen
  /\ currentPageIndex = pagesLength - 2
  /\ lastInput = KeyRight
  /\ writtenAtRead = Len(written)
  /\ PageOutput(pagesLength - 1) \in {written[k] : k \in 1..Len(written)}

----------------------------------------------------------------------------
\* a step in which a read returns
ReadReturns == rpc = "reading" /\ writtenAtRead' = Len(written) /\ reads' = reads + 1

ReadsArrow ==
  /\ lastInput'[1] = 27 /\ Len(lastInput') >= 3
  /\ lastInput'[2] = 91 /\ lastInput'[3] \in {67, 68}

(* C26: the router starts on the splash screen; isOnSplashScreen becomes   *)
(* false only when a read returns first byte 13 and never becomes true     *)
(* again; on the splash screen an arrow changes neither currentPageIndex   *)
(* nor the terminal, and off the splash screen Enter changes nothing.      *)

C26_SplashScreen ==
  /\ [](rpc = "constructed" => isOnSplashScreen)
  /\ [][(isOnSplashScreen /\ ~isOnSplashScreen')
          => (ReadReturns /\ Len(lastInput') >= 1 /\ lastInput'[1] = 13)]_vars
  /\ [][(RouterConstructed /\ ~isOnSplashScreen) => ~isOnSplashScreen']_vars
  /\ [][(ReadReturns /\ isOnSplashScreen /\ Len(lastInput') >= 1 /\ ReadsArrow)
          => /\ currentPageIndex' = currentPageIndex
             /\ isOnSplashScreen'
             /\ written' = written]_vars
  /\ [][(ReadReturns /\ ~isOnSplashScreen /\ Len(lastInput') >= 1 /\ lastInput'[1] = 13)
          => /\ currentPageIndex' = currentPageIndex
             /\ ~isOnSplashScreen'
             /\ running' = running
             /\ written' = written]_vars

\* Enter was read on the second page, as the fourth read: nothing was
\* rendered for it
C26_Witness ==
  /\ rpc = "reading"
  /\ ~isOnSplashScreen
  /\ currentPageIndex = 1
  /\ lastInput = KeyEnter
  /\ writtenAtRead = Len(written)
  /\ reads = 4
  /\ Len(written) = 11

----------------------------------------------------------------------------
\* handleInput's loop was entered and has been left
LoopLeft == leftBy # "notEntered" /\ rpc \in {"finally", "finished", "failed"}

\* the last read returned a buffer whose first byte is 113
QRead == Len(lastInput) >= 1 /\ lastInput[1] = 113

\* no page was rendered since the last read returned
NoPageSinceRead ==
  \A k \in (writtenAtRead + 1)..Len(written) : written[k].what # "page"

\* the last read returned the empty buffer and the loop is still running
EmptyReadKeepsLoop ==
  (reads > 0 /\ lastInput = <<>> /\ ~thrown) => (rpc = "reading" /\ running)

(* C27 as stated: handleInput leaves its loop if and only if a read        *)
(* returns a buffer whose first byte is 113, and no page is rendered after *)
(* that read; an empty read does not end the loop.                         *)

C27_LoopLeftIffQ ==
  /\ LoopLeft <=> QRead
  /\ QRead => NoPageSinceRead
  /\ EmptyReadKeepsLoop

(* C27: handleInput returns if and only if a read returns a buffer whose   *)
(* first byte is 113, and no page is rendered after that read; the loop is *)
(* left otherwise only by an error thrown from a read or from a render; an *)
(* empty read does not end the loop.                                       *)

C27_ReturnsIffQ ==
  /\ (LoopLeft /\ ~thrown) <=> QRead
  /\ QRead => (leftBy = "quit" /\ ~running /\ NoPageSinceRead)
  /\ (LoopLeft /\ ~QRead) => (thrown /\ running)
  /\ EmptyReadKeepsLoop

\* q was read on a page, as the third read or later: start has returned and
\* the restore sequence is all that was written since
C27_Witness ==
  /\ rpc = "finished"
  /\ QRead
  /\ ~isOnSplashScreen
  /\ reads >= 3
  /\ writtenAtRead = Len(written) - 1
  /\ written[Len(written)] = Restore

----------------------------------------------------------------------------
\* how often w was written
TimesWritten(w) == Cardinality({k \in 1..Len(written) : written[k] = w})

\* start has returned or thrown
StartOver == rpc \in {"finished", "failed"}

(* C28: every run of start writes ALT_SCREEN+HIDE_CURSOR first and         *)
(* SHOW_CURSOR+EXIT_ALT_SCREEN last, once each, whether the run ends by q  *)
(* or by an error thrown from a page render or a read; nothing is written  *)
(* after the restore sequence.                                             *)

C28_ScreenRestored ==
  /\ [](/\ written # <<>> => written[1] = AltScreen
        /\ TimesWritten(AltScreen) <= 1
        /\ TimesWritten(Restore) = (IF StartOver THEN 1 ELSE 0)
        /\ StartOver => /\ TimesWritten(AltScreen) = 1
                        /\ written[Len(written)] = Restore)
  /\ [][TimesWritten(Restore) > 0 => written' = written]_vars

\* a run that ended by an error thrown inside handleInput's loop, after a
\* page was rendered
C28_Witness ==
  /\ rpc = "failed" /\ thrown /\ leftBy = "error"
  /\ ~isOnSplashScreen
  /\ written[1] = AltScreen
  /\ written[Len(written)] = Restore
  /\ PagesAfterSplash # {}

----------------------------------------------------------------------------
(* C29: when start has returned, the raw mode of stdin is what it was      *)
(* before the Terminal was constructed: a terminal that was in normal mode *)
(* is in normal mode again.                                                *)

C29_RawModeRestored == rpc = "finished" => stdinRaw = rawBefore

====
